---- MODULE Spec2Model ----
(***************************************************************************)
(* A model of the htpp parsers: the request parser (src/src/request.rs),   *)
(* the response parser (src/src/response.rs), the header-block scanner of  *)
(* src/src/lib.rs and the URL parser (src/src/uri.rs).                     *)
(*                                                                         *)
(* A byte is a number in 0..255, a byte slice a sequence of bytes.  Every  *)
(* scanning function of the source is an operator from the slice it reads  *)
(* to a record [res, val, rest]: the Result it returns ("Ok", an Error     *)
(* variant, or "Panic" when the Rust code aborts on an index out of range  *)
(* or an unwrap), the value parsed, and the slice left to parse.  The      *)
(* stages of each parse call are the actions.                              *)
(***************************************************************************)
EXTENDS Integers, Sequences, FiniteSets, TLC

VARIABLES
  op,         \* the entry point under execution
  pc,         \* the stage the call has reached
  input,      \* the byte slice the caller passed
  cap,        \* the capacity of the caller's header / query buffer
  bytes,      \* the parser's window (self.bytes, or slice[offset..])
  body,       \* the bytes after the header terminator
  method,     \* Request.method
  path,       \* Request.path / Url.path
  status,     \* Response.status
  reason,     \* Response.reason
  headers,    \* Request.headers / Response.headers / the slots written
  res,        \* the Result of the call: "None" while it runs
  round,      \* 1: the parse of the input, 2: the parse of as_bytes' output
  first,      \* the result of the first parse, kept by the round trip
  stage,      \* the stage that ran last
  given,      \* the pieces the caller's input was put together from
  buf,        \* the caller's buffer: headers_buf / queries_buf
  iteration,  \* the slots of buf written so far
  count,      \* the usize that parse_headers returns
  query_params \* Url.query_params

vars == <<op, pc, input, cap, bytes, body, method, path, status, reason,
          headers, res, round, first, stage, given, buf, iteration, count,
          query_params>>

\* the state of the calls that fill a caller's buffer
bufvars == <<buf, iteration, count, query_params>>

-----------------------------------------------------------------------------
(* Bounds of the model *)

\* the most header lines of an input's header block
MaxLines == 2
\* the largest capacity of a caller-supplied buffer
MaxCap == 2
\* the most query parameters of a URL input
MaxParams == 2

-----------------------------------------------------------------------------
(* Byte constants and character-class tables: src/src/lib.rs *)

SPACE == 32
CR == 13
LF == 10
COLON == 58
HTAB == 9

Byte == 0..255

URL_SAFE(b) == b = 33 \/ b \in 35..59 \/ b = 61 \/ b \in 63..126

HEADER_NAME_SAFE(b) ==
  b = 45 \/ b \in 48..57 \/ b \in 65..90 \/ b = 95 \/ b \in 97..122

-----------------------------------------------------------------------------
(* Slices *)

\* &s[n..]
DropN(s, n) == SubSeq(s, n + 1, Len(s))

\* &s[..n]
TakeN(s, n) == SubSeq(s, 1, n)

\* the place, 1-based, of the first byte of s that is in Stop: where a scan
\* `for (counter, character) in s.iter().enumerate()` that continues on
\* every other byte leaves its loop; 0 when it runs to the end of s
FirstIdx(s, Stop) ==
  IF \E i \in 1..Len(s) : s[i] \in Stop
  THEN CHOOSE i \in 1..Len(s) :
         s[i] \in Stop /\ \A j \in 1..(i - 1) : s[j] \notin Stop
  ELSE 0

\* self.bytes.windows(substr.len()).position(|win| win == substr), 0-based;
\* -1 for None
find_substr(s, sub) ==
  LET n == Len(sub)
      hit(i) == SubSeq(s, i, i + n - 1) = sub
      I == {i \in 1..(Len(s) - n + 1) : hit(i)}
  IN IF I = {} THEN -1
     ELSE (CHOOSE i \in I : \A j \in I : i <= j) - 1

Range(s) == {s[i] : i \in 1..Len(s)}

\* s.starts_with(p)
BeginsWith(s, p) == Len(s) >= Len(p) /\ TakeN(s, Len(p)) = p

RECURSIVE Flatten(_)
Flatten(ss) == IF ss = <<>> THEN <<>> ELSE Head(ss) \o Flatten(Tail(ss))

\* Option::None and Option::Some(slice)
None == [some |-> FALSE, slice |-> <<>>]
Some(sl) == [some |-> TRUE, slice |-> sl]

Rslt(r, v, rest) == [res |-> r, val |-> v, rest |-> rest]

CRLF == <<13, 10>>
CRLFCRLF == <<13, 10, 13, 10>>

-----------------------------------------------------------------------------
(* The request parser: src/src/request.rs *)

IsAlpha(b) == b \in 65..90 \/ b \in 97..122

\* impl fmt::Display for Method
MethodDisplay(m) == IF m = "Get" THEN <<71, 69, 84>> ELSE <<80, 79, 83, 84>>

Req_parse_method(b) ==
  IF Len(b) < 4 THEN Rslt("Panic", "None", b)
  ELSE IF TakeN(b, 4) = <<71, 69, 84, 32>> THEN Rslt("Ok", "Get", DropN(b, 4))
  ELSE IF Len(b) < 5 THEN Rslt("Panic", "None", b)
  ELSE IF TakeN(b, 5) = <<80, 79, 83, 84, 32>>
       THEN Rslt("Ok", "Get", DropN(b, 5))
  ELSE Rslt("Malformed", "None", b)

\* URL_SAFE.binary_search(character).is_ok() is read as the membership of
\* the byte in the table
Req_path_stop == {c \in Byte : ~URL_SAFE(c)}

Req_parse_path(b) ==
  LET i == FirstIdx(b, Req_path_stop)
  IN IF i = 0 THEN Rslt("Malformed", <<>>, b)
     ELSE IF b[i] = SPACE
          THEN IF i = 1 THEN Rslt("Malformed", <<>>, DropN(b, i))
               ELSE Rslt("Ok", TakeN(b, i - 1), DropN(b, i))
     ELSE Rslt("Malformed", <<>>, b)

Req_parse_http_version(b) ==
  IF Len(b) < 10 THEN Rslt("Panic", "None", b)
  ELSE IF TakeN(b, 10) = <<72, 84, 84, 80, 47, 49, 46, 49, 13, 10>>
       THEN Rslt("Ok", "One", DropN(b, 10))
  ELSE IF TakeN(b, 10) = <<72, 84, 84, 80, 47, 50, 46, 48, 13, 10>>
       THEN Rslt("Ok", "Two", DropN(b, 10))
  ELSE Rslt("Malformed", "None", b)

\* RequestParser::parse_header_name and ResponseParser::parse_header_name
\* are the same code
Msg_name_stop == {c \in Byte : ~(IsAlpha(c) \/ c = 45)}

Msg_parse_header_name(b) ==
  LET i == FirstIdx(b, Msg_name_stop)
  IN IF i = 0 THEN Rslt("Ok", <<>>, b)
     ELSE IF b[i] = COLON
          THEN LET rest == DropN(b, i)
               IN IF rest = <<>> THEN Rslt("Panic", <<>>, rest)
                  ELSE IF rest[1] = SPACE \/ rest[1] = 9
                       THEN Rslt("Ok", TakeN(b, i - 1), DropN(rest, 1))
                  ELSE Rslt("Ok", TakeN(b, i - 1), rest)
     ELSE Rslt("Malformed", <<>>, b)

\* RequestParser::parse_header_value and ResponseParser::parse_header_value
\* are the same code
Msg_parse_header_value(b) ==
  LET i == FirstIdx(b, {CR})
  IN IF i = 0 THEN Rslt("Malformed", <<>>, b)
     ELSE LET rest == DropN(b, i)
          IN IF rest = <<>> THEN Rslt("Panic", <<>>, rest)
             ELSE IF rest[1] = LF THEN Rslt("Ok", TakeN(b, i - 1), DropN(rest, 1))
             ELSE Rslt("Malformed", <<>>, rest)

Header(n, v) == [name |-> n, val |-> v]

\* a header line written without the space after the colon
HeaderLine_NoSpace(h) == h.name \o <<58>> \o h.val \o CRLF

\* Request::as_bytes
HeaderLine(h) == h.name \o <<58, 32>> \o h.val \o CRLF

Req_as_bytes(m, p, hs, bd) ==
  MethodDisplay(m) \o <<32>> \o p \o <<32, 72, 84, 84, 80, 47, 49, 46, 49, 13, 10>>
    \o Flatten([i \in 1..Len(hs) |-> HeaderLine(hs[i])]) \o CRLF \o bd

-----------------------------------------------------------------------------
(* The inputs of the request parser *)

\* method tokens, with the delimiter that follows
ReqMethodTokens ==
  { <<71, 69, 84, 32>>,   \* 'GET '
    <<80, 79, 83, 84, 32>>,   \* 'POST '
    <<80, 85, 84, 32>>,   \* 'PUT '
    <<71, 69, 84, 10>>,   \* 'GET\n'
    <<32>>,   \* ' '
    <<103, 101, 116, 32>>,   \* 'get '
    <<72, 69, 65, 68, 32>>,   \* 'HEAD '
    <<80, 79, 83, 84, 9>> }   \* 'POST\t'

\* paths, with the space that ends them
ReqPathTokens ==
  { <<47, 32>>,   \* '/ '
    <<47, 97, 63, 98, 61, 99, 32>>,   \* '/a?b=c '
    <<47, 92, 32>>,   \* '/\\ '
    <<47, 97, 92, 98, 32>>,   \* '/a\\b '
    <<32>>,   \* ' '
    <<47, 60, 32>>,   \* '/< '
    <<47, 128, 32>> }   \* '/\x80 '

\* version literals, with the line end
ReqVersionTokens ==
  { <<72, 84, 84, 80, 47, 49, 46, 49, 13, 10>>,   \* 'HTTP/1.1\r\n'
    <<72, 84, 84, 80, 47, 50, 46, 48, 13, 10>>,   \* 'HTTP/2.0\r\n'
    <<72, 84, 84, 80, 47, 49, 46, 49, 10>>,   \* 'HTTP/1.1\n'
    <<72, 84, 84, 80, 47, 49, 46, 48, 13, 10>> }   \* 'HTTP/1.0\r\n'

\* header lines, well-formed and not
HeaderLines ==
  { <<65, 58, 32, 98, 13, 10>>,   \* 'A: b\r\n'
    <<65, 58, 98, 13, 10>>,   \* 'A:b\r\n'
    <<65, 58, 32, 32, 98, 13, 10>>,   \* 'A:  b\r\n'
    <<65, 58, 9, 98, 13, 10>>,   \* 'A:\tb\r\n'
    <<66, 45, 99, 58, 32, 13, 10>>,   \* 'B-c: \r\n'
    <<65, 58, 32, 98, 10>>,   \* 'A: b\n'
    <<58, 118, 13, 10>>,   \* ':v\r\n'
    <<65, 95, 49, 58, 32, 98, 13, 10>>,   \* 'A_1: b\r\n'
    <<65, 32, 98, 13, 10>>,   \* 'A b\r\n'
    <<65, 58, 32, 98, 13, 120, 13, 10>>,   \* 'A: b\rx\r\n'
    <<32, 65, 58, 32, 98, 13, 10>>,   \* ' A: b\r\n'
    <<66, 58, 13, 10>> }   \* 'B:\r\n'

\* well-formed request lines: method, path and version tokens
ReqGoodStarts ==
  { << <<71, 69, 84, 32>>, <<47, 32>>,
       <<72, 84, 84, 80, 47, 49, 46, 49, 13, 10>> >>,   \* 'GET / HTTP/1.1\r\n'
    << <<80, 79, 83, 84, 32>>, <<47, 97, 63, 98, 61, 99, 32>>,
       <<72, 84, 84, 80, 47, 50, 46, 48, 13, 10>> >> }  \* 'POST /a?b=c HTTP/2.0\r\n'

\* what stands where the blank line is expected
Terminators ==
  { <<13, 10>>,   \* '\r\n'
    <<10>>,   \* '\n'
    <<>> }   \* ''

\* bodies
Bodies ==
  { <<>>,   \* ''
    <<120, 121>>,   \* 'xy'
    <<13, 10, 122>> }   \* '\r\nz'

\* the sequences of at most n header lines
LineSeqs(n) == UNION {[1..k -> HeaderLines] : k \in 0..n}

Given(s, ls, t, b) == [start |-> s, lines |-> ls, term |-> t, body |-> b]

\* the bytes of an input put together from its pieces
Assemble(g) == Flatten(g.start) \o Flatten(g.lines) \o g.term \o g.body

\* every request line of the tokens above, before an empty or a one-line
\* header block; and the well-formed request lines before every header
\* block, terminator and body
ReqGiven ==
  {Given(<<m, p, v>>, ls, CRLF, <<>>) :
     m \in ReqMethodTokens, p \in ReqPathTokens, v \in ReqVersionTokens,
     ls \in {<<>>, << <<65, 58, 32, 98, 13, 10>> >>}}
  \cup
  {Given(s, ls, t, b) :
     s \in ReqGoodStarts, ls \in LineSeqs(MaxLines), t \in Terminators,
     b \in Bodies}

-----------------------------------------------------------------------------
(* RequestParser::parse, stage by stage, and the round trip through
   Request::as_bytes *)

NoResult == [method |-> "None", path |-> <<>>, headers |-> <<>>, body |-> <<>>]

InitCommon ==
  /\ pc = "start"
  /\ bytes = <<>>
  /\ body = <<>>
  /\ method = "None"
  /\ path = <<>>
  /\ status = 0
  /\ reason = <<>>
  /\ headers = <<>>
  /\ res = "None"
  /\ round = 1
  /\ first = NoResult
  /\ stage = "none"
  /\ iteration = 0
  /\ count = 0
  /\ query_params = None

\* the headers a caller gives to Request::new: a vector of n slots, each a
\* header or EMPTY_HEADER
BuiltHeaders(n) ==
  [1..n -> {Header(<<65>>, <<98>>), Header(<<66, 45, 99>>, <<>>),
            Header(<<>>, <<>>)}]

\* RequestParser::new on the bytes of an input, or Request::new on the parts
\* of a request
InitReq ==
  /\ \/ /\ op = "request"
        /\ given \in ReqGiven
        /\ input = Assemble(given)
        /\ cap = 0
        /\ buf = <<>>
     \/ /\ op = "request_new"
        /\ given = Given(<<>>, <<>>, <<>>, <<>>)
        /\ input = <<>>
        /\ cap \in 0..MaxCap
        /\ buf \in BuiltHeaders(cap)
  /\ InitCommon

\* a stage returns Err (or aborts): the call ends
Fail(r) ==
  /\ pc' = "done"
  /\ res' = r
  /\ UNCHANGED <<op, input, cap, bytes, body, method, path, status, reason,
                 headers, round, first, given, bufvars>>

ReqParseStart ==
  /\ op = "request" /\ pc = "start"
  /\ stage' = "start"
  /\ LET idx == find_substr(input, CRLFCRLF)
     IN IF idx = -1 THEN Fail("Malformed")
        ELSE IF Len(TakeN(input, idx + 2)) < 14 THEN Fail("Malformed")
        ELSE /\ bytes' = TakeN(input, idx + 2)
             /\ body' = DropN(DropN(input, idx + 2), 2)
             /\ pc' = "method"
             /\ UNCHANGED <<op, input, cap, method, path, status, reason,
                            headers, res, round, first, given, bufvars>>

ReqParseMethod ==
  /\ op = "request" /\ pc = "method"
  /\ stage' = "method"
  /\ LET r == Req_parse_method(bytes)
     IN IF r.res # "Ok" THEN Fail(r.res)
        ELSE /\ method' = r.val
             /\ bytes' = r.rest
             /\ pc' = "path"
             /\ UNCHANGED <<op, input, cap, body, path, status, reason,
                            headers, res, round, first, given, bufvars>>

ReqParsePath ==
  /\ op = "request" /\ pc = "path"
  /\ stage' = "path"
  /\ LET r == Req_parse_path(bytes)
     IN IF r.res # "Ok" THEN Fail(r.res)
        ELSE /\ path' = r.val
             /\ bytes' = r.rest
             /\ pc' = "version"
             /\ UNCHANGED <<op, input, cap, body, method, status, reason,
                            headers, res, round, first, given, bufvars>>

ReqParseVersion ==
  /\ op = "request" /\ pc = "version"
  /\ stage' = "version"
  /\ IF Len(bytes) < 10 THEN Fail("Malformed")
     ELSE LET r == Req_parse_http_version(bytes)
          IN IF r.res # "Ok" THEN Fail(r.res)
             ELSE /\ bytes' = r.rest
                  /\ pc' = "headers"
                  /\ UNCHANGED <<op, input, cap, body, method, path, status,
                                 reason, headers, res, round, first, given, bufvars>>

\* one iteration of the loop of parse_headers
Msg_parse_header(b) ==
  LET n == Msg_parse_header_name(b)
  IN IF n.res # "Ok" THEN Rslt(n.res, Header(<<>>, <<>>), n.rest)
     ELSE LET v == Msg_parse_header_value(n.rest)
          IN IF v.res # "Ok" THEN Rslt(v.res, Header(<<>>, <<>>), v.rest)
             ELSE Rslt("Ok", Header(n.val, v.val), v.rest)

ReqParseHeader ==
  /\ op = "request" /\ pc = "headers"
  /\ bytes # <<>>
  /\ stage' = "headers"
  /\ LET r == Msg_parse_header(bytes)
     IN IF r.res # "Ok" THEN Fail(r.res)
        ELSE /\ headers' = Append(headers, r.val)
             /\ bytes' = r.rest
             /\ UNCHANGED <<op, pc, input, cap, body, method, path, status,
                            reason, res, round, first, given, bufvars>>

ReqParseFinish ==
  /\ op = "request" /\ pc = "headers"
  /\ bytes = <<>>
  /\ stage' = "finish"
  /\ pc' = "done"
  /\ res' = "Ok"
  /\ UNCHANGED <<op, input, cap, bytes, body, method, path, status, reason,
                 headers, round, first, given, bufvars>>

\* the caller serializes the parsed Request and parses the bytes again
ReqAsBytes ==
  /\ op = "request" /\ pc = "done" /\ res = "Ok" /\ round = 1
  /\ first' = [method |-> method, path |-> path, headers |-> headers,
               body |-> body]
  /\ input' = Req_as_bytes(method, path, headers, body)
  /\ round' = 2
  /\ pc' = "start"
  /\ res' = "None"
  /\ bytes' = <<>>
  /\ body' = <<>>
  /\ method' = "None"
  /\ path' = <<>>
  /\ headers' = <<>>
  /\ stage' = "as_bytes"
  /\ UNCHANGED <<op, cap, status, reason, given, bufvars>>

\* Request::new(method, path, headers, body)
ReqNew ==
  /\ op = "request_new" /\ pc = "start"
  /\ stage' = "new"
  /\ method' \in {"Get", "Post"}
  /\ path' = <<47>>
  /\ headers' = buf
  /\ body' \in {<<>>, <<120, 121>>}
  /\ pc' = "built"
  /\ UNCHANGED <<op, input, cap, bytes, status, reason, res, round, first,
                 given, bufvars>>

\* Request::as_bytes on the Request that Request::new returned
ReqNewAsBytes ==
  /\ op = "request_new" /\ pc = "built"
  /\ stage' = "as_bytes"
  /\ input' = Req_as_bytes(method, path, headers, body)
  /\ pc' = "done"
  /\ UNCHANGED <<op, cap, bytes, body, method, path, status, reason, headers,
                 res, round, first, given, bufvars>>

NextReq ==
  \/ ReqNew
  \/ ReqNewAsBytes
  \/ ReqParseStart
  \/ ReqParseMethod
  \/ ReqParsePath
  \/ ReqParseVersion
  \/ ReqParseHeader
  \/ ReqParseFinish
  \/ ReqAsBytes

SpecReq == InitReq /\ [][NextReq]_vars

-----------------------------------------------------------------------------
(* Claims about the request parser *)

\* C1: round-trip law. When the bytes that as_bytes writes for a parsed
\* Request are parsed again, the parse succeeds and gives the method, path,
\* header sequence and body of the first parse.
C1_RoundTrip ==
  (op = "request" /\ round = 2 /\ pc = "done") =>
    /\ res = "Ok"
    /\ [method |-> method, path |-> path, headers |-> headers,
        body |-> body] = first

\* a request given with the literal "POST ", two header lines and a body has
\* gone through both parses
C1_Witness ==
  /\ op = "request" /\ round = 2 /\ pc = "done" /\ res = "Ok"
  /\ given.start[1] = <<80, 79, 83, 84, 32>>
  /\ Len(headers) = 2
  /\ body # <<>>

\* a piece of the input ends with a line feed that no carriage return
\* precedes
EndsBareLF(t) ==
  /\ t # <<>>
  /\ t[Len(t)] = LF
  /\ (Len(t) = 1 \/ t[Len(t) - 1] # CR)

\* a bare LF stands where the request / status line, a header line or the
\* blank line must end with CRLF
HasBareLF(g) ==
  \/ EndsBareLF(Flatten(g.start))
  \/ \E i \in 1..Len(g.lines) : EndsBareLF(g.lines[i])
  \/ g.term = <<10>>

\* C3: an input with a bare LF where CRLF is required is Malformed.
C3_BareLFRejected ==
  (round = 1 /\ pc = "done" /\ HasBareLF(given)) => res = "Malformed"

GET_ == <<71, 69, 84, 32>>
POST_ == <<80, 79, 83, 84, 32>>
PUT_ == <<80, 85, 84, 32>>

\* C6: the method stage accepts exactly the inputs that begin with "GET ",
\* "POST " or "PUT ", reports GET, POST or PUT respectively, and fails
\* with Malformed on every other prefix.
C6_MethodAllowList ==
  (op = "request" /\ round = 1 /\ stage = "method") =>
    /\ BeginsWith(input, GET_) => (pc = "path" /\ method = "Get")
    /\ BeginsWith(input, POST_) => (pc = "path" /\ method = "Post")
    /\ BeginsWith(input, PUT_) => (pc = "path" /\ method = "Put")
    /\ (~BeginsWith(input, GET_) /\ ~BeginsWith(input, POST_)
          /\ ~BeginsWith(input, PUT_))
         => (pc = "done" /\ res = "Malformed")

\* C7: the path scan rejects with Malformed every request whose path holds
\* a backslash (byte 92).
C7_BackslashRejected ==
  (op = "request" /\ round = 1 /\ stage = "path"
     /\ 92 \in Range(given.start[2]))
    => (pc = "done" /\ res = "Malformed")

\* the headers before the first one whose name is empty
C18_Present(hs) ==
  LET E == {i \in 1..Len(hs) : hs[i].name = <<>>}
  IN IF E = {} THEN hs
     ELSE SubSeq(hs, 1, (CHOOSE i \in E : \A j \in E : i <= j) - 1)

\* the bytes of a request whose headers are written up to the first one
\* with an empty name
C18_Bytes(m, p, hs, bd) ==
  (IF m = "Get" THEN <<71, 69, 84>> ELSE <<80, 79, 83, 84>>) \o <<32>> \o p
    \o <<32, 72, 84, 84, 80, 47, 49, 46, 49, 13, 10>>
    \o Flatten([i \in 1..Len(C18_Present(hs)) |->
                  C18_Present(hs)[i].name \o <<58, 32>>
                    \o C18_Present(hs)[i].val \o <<13, 10>>])
    \o <<13, 10>> \o bd

\* C18: as_bytes writes the method, a space, the path, " HTTP/1.1\r\n", each
\* header as "Name: Value\r\n" in order up to the first header whose name is
\* empty, for which and for the headers after it no line is written, then
\* the blank line and the body.
C18_StopsAtSentinel ==
  /\ (op = "request_new" /\ pc = "done") =>
       input = C18_Bytes(method, path, headers, body)
  /\ (op = "request" /\ stage = "as_bytes") =>
       input = C18_Bytes(first.method, first.path, first.headers, first.body)

-----------------------------------------------------------------------------
(* The response parser: src/src/response.rs *)

\* a digit that is not '0'
Resp_is_digit_NoZero(c) == c \in 49..57

\* (48..=57).contains(character)
Resp_is_digit(c) == c \in 48..57

\* a reason byte, the horizontal tab also taken
Resp_is_reason_byte_Tab(c) == IsAlpha(c) \/ c = SPACE \/ c = HTAB

\* (65..=90).contains(character) || (97..=122).contains(character)
\*   || *character == SPACE
Resp_is_reason_byte(c) == IsAlpha(c) \/ c = SPACE

RECURSIVE Decimal(_)
Decimal(ds) ==
  IF ds = <<>> THEN 0
  ELSE 10 * Decimal(TakeN(ds, Len(ds) - 1)) + (ds[Len(ds)] - 48)

\* str::parse::<u16>(status).unwrap() on a run of digits: the unwrap aborts
\* on the empty string and on a value that does not fit 16 bits
ParseU16(ds) ==
  IF ds = <<>> THEN [res |-> "Panic", val |-> 0]
  ELSE IF Decimal(ds) > 65535 THEN [res |-> "Panic", val |-> 0]
  ELSE [res |-> "Ok", val |-> Decimal(ds)]

Resp_parse_http_version(b) ==
  IF Len(b) < 9 THEN Rslt("Panic", "None", b)
  ELSE IF TakeN(b, 9) = <<72, 84, 84, 80, 47, 49, 46, 49, 32>>
       THEN Rslt("Ok", "One", DropN(b, 9))
  ELSE IF TakeN(b, 9) = <<72, 84, 84, 80, 47, 50, 46, 48, 32>>
       THEN Rslt("Ok", "Two", DropN(b, 9))
  ELSE Rslt("Malformed", "None", b)

Resp_reason_stop == {c \in Byte : ~Resp_is_reason_byte(c)}

Resp_parse_reason(b) ==
  LET i == FirstIdx(b, Resp_reason_stop)
  IN IF i = 0 THEN Rslt("Ok", <<>>, b)
     ELSE IF b[i] = CR
          THEN LET rest == DropN(b, i)
               IN IF rest = <<>> THEN Rslt("Panic", <<>>, rest)
                  ELSE IF rest[1] # LF THEN Rslt("Malformed", <<>>, rest)
                  ELSE Rslt("Ok", TakeN(b, i - 1), DropN(rest, 1))
     ELSE Rslt("Malformed", <<>>, b)

StatusVal(s, r) == [status |-> s, reason |-> r]

\* the end of a status line without a reason phrase, the window standing
\* after the CR: the LF, then the numeric conversion of the digits
Resp_status_end(digits, rest) ==
  IF rest = <<>> THEN Rslt("Panic", StatusVal(0, <<>>), rest)
  ELSE IF rest[1] # LF THEN Rslt("Malformed", StatusVal(0, <<>>), rest)
  ELSE LET n == ParseU16(digits)
       IN IF n.res # "Ok" THEN Rslt("Panic", StatusVal(0, <<>>), DropN(rest, 1))
          ELSE Rslt("Ok", StatusVal(n.val, <<>>), DropN(rest, 1))

Resp_status_stop == {c \in Byte : ~Resp_is_digit(c)}

Resp_parse_status(b) ==
  LET i == FirstIdx(b, Resp_status_stop)
  IN IF i = 0 THEN Rslt("Malformed", StatusVal(0, <<>>), b)
     ELSE IF b[i] = SPACE
          THEN LET digits == TakeN(b, i - 1)
                   rest == DropN(b, i)
               IN IF Len(digits) > 3
                  THEN Rslt("Malformed", StatusVal(0, <<>>), rest)
                  ELSE IF rest = <<>>
                  THEN Rslt("Panic", StatusVal(0, <<>>), rest)
                  ELSE IF IsAlpha(rest[1])
                  THEN LET r == Resp_parse_reason(rest)
                           n == ParseU16(digits)
                       IN IF r.res # "Ok"
                          THEN Rslt(r.res, StatusVal(0, <<>>), r.rest)
                          ELSE IF n.res # "Ok"
                          THEN Rslt("Panic", StatusVal(0, <<>>), r.rest)
                          ELSE Rslt("Ok", StatusVal(n.val, r.val), r.rest)
                  ELSE IF rest[1] = CR
                  THEN Resp_status_end(digits, DropN(rest, 1))
                  ELSE Rslt("Malformed", StatusVal(0, <<>>), rest)
     ELSE IF b[i] = CR
          THEN Resp_status_end(TakeN(b, i - 1), DropN(b, i))
     ELSE Rslt("Malformed", StatusVal(0, <<>>), b)

-----------------------------------------------------------------------------
(* The inputs of the response parser *)

\* version literals, with the delimiter that follows
RespVersionTokens ==
  { <<72, 84, 84, 80, 47, 49, 46, 49, 32>>,   \* 'HTTP/1.1 '
    <<72, 84, 84, 80, 47, 50, 46, 48, 32>>,   \* 'HTTP/2.0 '
    <<72, 84, 84, 80, 47, 49, 46, 48, 32>>,   \* 'HTTP/1.0 '
    <<72, 84, 84, 80, 47, 49, 46, 49, 9>> }   \* 'HTTP/1.1\t'

\* status codes
RespCodeTokens ==
  { <<50, 48, 48>>,   \* '200'
    <<55>>,   \* '7'
    <<52, 50>>,   \* '42'
    <<50, 48, 48, 48>>,   \* '2000'
    <<>>,   \* ''
    <<57, 57, 57, 57, 57>>,   \* '99999'
    <<50, 120, 48>> }   \* '2x0'

\* what follows the status code, to the end of the status line
RespFormTokens ==
  { <<32, 79, 75, 13, 10>>,   \* ' OK\r\n'
    <<32, 97, 32, 98, 13, 10>>,   \* ' a b\r\n'
    <<32, 13, 10>>,   \* ' \r\n'
    <<13, 10>>,   \* '\r\n'
    <<10>>,   \* '\n'
    <<32, 79, 75, 10>>,   \* ' OK\n'
    <<32, 0, 13, 10>>,   \* ' \x00\r\n'
    <<32, 88, 255, 90, 13, 10>>,   \* ' X\xffZ\r\n'
    <<32, 97, 32, 98, 9, 13, 10>>,   \* ' a b\t\r\n'
    <<32, 32, 79, 75, 13, 10>>,   \* '  OK\r\n'
    <<32, 79, 75, 13, 120>>,   \* ' OK\rx'
    <<32, 49, 13, 10>>,   \* ' 1\r\n'
    <<120, 13, 10>>,   \* 'x\r\n'
    <<32, 10>> }   \* ' \n'

\* well-formed status lines: version, status code and the rest of the line
RespGoodStarts ==
  { << <<72, 84, 84, 80, 47, 49, 46, 49, 32>>, <<50, 48, 48>>,
       <<32, 79, 75, 13, 10>> >>,                  \* 'HTTP/1.1 200 OK\r\n'
    << <<72, 84, 84, 80, 47, 50, 46, 48, 32>>, <<52, 48, 52>>,
       <<13, 10>> >> }                             \* 'HTTP/2.0 404\r\n'

\* every status line of the tokens above, before an empty or a one-line
\* header block; and the well-formed status lines before every header
\* block, terminator and body
RespGiven ==
  {Given(<<v, c, f>>, ls, CRLF, <<>>) :
     v \in RespVersionTokens, c \in RespCodeTokens, f \in RespFormTokens,
     ls \in {<<>>, << <<65, 58, 32, 98, 13, 10>> >>}}
  \cup
  {Given(s, ls, t, b) :
     s \in RespGoodStarts, ls \in LineSeqs(MaxLines), t \in Terminators,
     b \in Bodies}

-----------------------------------------------------------------------------
(* ResponseParser::parse, stage by stage *)

InitResp ==
  /\ op = "response"
  /\ given \in RespGiven
  /\ input = Assemble(given)
  /\ cap = 0
  /\ buf = <<>>
  /\ InitCommon

RespParseStart ==
  /\ op = "response" /\ pc = "start"
  /\ stage' = "start"
  /\ LET idx == find_substr(input, CRLFCRLF)
     IN IF idx = -1 THEN Fail("Malformed")
        ELSE IF Len(TakeN(input, idx + 2)) < 12 THEN Fail("Malformed")
        ELSE /\ bytes' = TakeN(input, idx + 2)
             /\ body' = DropN(DropN(input, idx + 2), 2)
             /\ pc' = "version"
             /\ UNCHANGED <<op, input, cap, method, path, status, reason,
                            headers, res, round, first, given, bufvars>>

RespParseVersion ==
  /\ op = "response" /\ pc = "version"
  /\ stage' = "version"
  /\ LET r == Resp_parse_http_version(bytes)
     IN IF r.res # "Ok" THEN Fail(r.res)
        ELSE /\ bytes' = r.rest
             /\ pc' = "status"
             /\ UNCHANGED <<op, input, cap, body, method, path, status,
                            reason, headers, res, round, first, given, bufvars>>

RespParseStatus ==
  /\ op = "response" /\ pc = "status"
  /\ stage' = "status"
  /\ LET r == Resp_parse_status(bytes)
     IN IF r.res # "Ok" THEN Fail(r.res)
        ELSE /\ status' = r.val.status
             /\ reason' = r.val.reason
             /\ bytes' = r.rest
             /\ pc' = "headers_begin"
             /\ UNCHANGED <<op, input, cap, body, method, path, headers,
                            res, round, first, given, bufvars>>

\* the test that opens parse_headers: a header block that begins with a
\* space is refused
RespParseHeadersBegin ==
  /\ op = "response" /\ pc = "headers_begin"
  /\ stage' = "headers_begin"
  /\ IF bytes # <<>> /\ bytes[1] = SPACE THEN Fail("Malformed")
     ELSE /\ pc' = "headers"
          /\ UNCHANGED <<op, input, cap, bytes, body, method, path, status,
                         reason, headers, res, round, first, given, bufvars>>

RespParseHeader ==
  /\ op = "response" /\ pc = "headers"
  /\ bytes # <<>>
  /\ stage' = "headers"
  /\ LET r == Msg_parse_header(bytes)
     IN IF r.res # "Ok" THEN Fail(r.res)
        ELSE /\ headers' = Append(headers, r.val)
             /\ bytes' = r.rest
             /\ UNCHANGED <<op, pc, input, cap, body, method, path, status,
                            reason, res, round, first, given, bufvars>>

RespParseFinish ==
  /\ op = "response" /\ pc = "headers"
  /\ bytes = <<>>
  /\ stage' = "finish"
  /\ pc' = "done"
  /\ res' = "Ok"
  /\ UNCHANGED <<op, input, cap, bytes, body, method, path, status, reason,
                 headers, round, first, given, bufvars>>

NextResp ==
  \/ RespParseStart
  \/ RespParseVersion
  \/ RespParseStatus
  \/ RespParseHeadersBegin
  \/ RespParseHeader
  \/ RespParseFinish

SpecResp == InitResp /\ [][NextResp]_vars

-----------------------------------------------------------------------------
(* Claims about the response parser *)

\* the version literals the response parser takes
C8_GoodVersion(v) ==
  v \in {<<72, 84, 84, 80, 47, 49, 46, 49, 32>>,
         <<72, 84, 84, 80, 47, 50, 46, 48, 32>>}

\* one to three digits
C8_Code(c) == Len(c) \in 1..3 /\ \A i \in 1..Len(c) : c[i] \in 48..57

\* the number one to three digits write
C8_Value(c) ==
  IF Len(c) = 1 THEN c[1] - 48
  ELSE IF Len(c) = 2 THEN 10 * (c[1] - 48) + (c[2] - 48)
  ELSE 100 * (c[1] - 48) + 10 * (c[2] - 48) + (c[3] - 48)

\* a space, a phrase of letters and spaces that begins with a letter, CRLF
C8_ReasonForm(f) ==
  /\ Len(f) >= 4
  /\ f[1] = 32
  /\ f[2] \in (65..90) \cup (97..122)
  /\ \A i \in 2..(Len(f) - 2) : f[i] \in (65..90) \cup (97..122) \cup {32}
  /\ f[Len(f) - 1] = 13
  /\ f[Len(f)] = 10

\* the status, reason and outcome the claim gives for the rest f of a status
\* line; "Other" where it gives none
C8_Expected(c, f) ==
  IF C8_ReasonForm(f)
  THEN [out |-> "Ok", status |-> C8_Value(c), reason |-> SubSeq(f, 2, Len(f) - 2)]
  ELSE IF f = <<32, 13, 10>> \/ f = <<13, 10>>
  THEN [out |-> "Ok", status |-> C8_Value(c), reason |-> <<>>]
  ELSE IF f[1] \notin {32, 13} \/ (f[1] = 32 /\ f[2] \notin (65..90) \cup (97..122) \cup {13})
  THEN [out |-> "Malformed", status |-> 0, reason |-> <<>>]
  ELSE [out |-> "Other", status |-> 0, reason |-> <<>>]

\* header lines that both message parsers take
C8_GoodLines ==
  { <<65, 58, 32, 98, 13, 10>>, <<65, 58, 98, 13, 10>>,
    <<65, 58, 32, 32, 98, 13, 10>>, <<65, 58, 9, 98, 13, 10>>,
    <<66, 45, 99, 58, 32, 13, 10>> }

\* C8: after a version literal and a status code of one to three digits, the
\* three terminator forms (space, reason, CRLF; space, CRLF; CRLF) are taken
\* with the status equal to the value of the digits and the reason equal to
\* the phrase or empty, and the whole parse succeeds; any other byte after
\* the code or after the space is Malformed.
C8_StatusLine ==
  (op = "response" /\ C8_GoodVersion(given.start[1]) /\ C8_Code(given.start[2])) =>
    LET e == C8_Expected(given.start[2], given.start[3])
    IN /\ (stage = "status" /\ e.out = "Ok") =>
            (pc = "headers_begin" /\ status = e.status /\ reason = e.reason)
       /\ (stage = "status" /\ e.out = "Malformed") =>
            (pc = "done" /\ res = "Malformed")
       /\ (pc = "done" /\ e.out = "Ok" /\ given.term = CRLF
             /\ \A i \in 1..Len(given.lines) : given.lines[i] \in C8_GoodLines) =>
            (res = "Ok" /\ status = e.status /\ reason = e.reason)

\* a one-digit status code directly before CRLF has been parsed to the end
C8_Witness ==
  /\ op = "response" /\ pc = "done" /\ res = "Ok"
  /\ given.start[2] = <<55>> /\ given.start[3] = <<13, 10>>
  /\ status = 7 /\ reason = <<>>

\* C9: a status code of more than 3 digits is Malformed whichever terminator
\* follows the digits.
C9_LongCodeRejected ==
  (op = "response" /\ stage = "status" /\ Len(given.start[2]) > 3
     /\ \A i \in 1..Len(given.start[2]) : given.start[2][i] \in 48..57)
    => (pc = "done" /\ res = "Malformed")

\* the rest f of a status line holds, after its space and before its first CR,
\* a byte that is neither a letter nor a space
C10_BadReasonByte(f) ==
  /\ Len(f) >= 2
  /\ f[1] = 32
  /\ \E i \in 2..Len(f) :
       /\ f[i] \notin (65..90) \cup (97..122) \cup {32, 13}
       /\ \A j \in 2..(i - 1) : f[j] # 13

\* C10: a status line whose reason phrase holds a byte that is neither a
\* letter nor a space is Malformed; an accepted reason holds letters and
\* spaces only and stands in the input directly before CRLF.
C10_ReasonBytes ==
  (op = "response" /\ stage = "status") =>
    /\ C10_BadReasonByte(given.start[3]) => (pc = "done" /\ res = "Malformed")
    /\ (pc = "headers_begin" /\ reason # <<>>) =>
         /\ \A i \in 1..Len(reason) : reason[i] \in (65..90) \cup (97..122) \cup {32}
         /\ BeginsWith(input, given.start[1] \o given.start[2] \o <<32>>
                                \o reason \o <<13, 10>>)

\* the status stage has refused a reason phrase that ends with a tab
C10_Witness ==
  /\ op = "response" /\ stage = "status" /\ pc = "done" /\ res = "Malformed"
  /\ given.start[2] = <<50, 48, 48>>
  /\ given.start[3] = <<32, 97, 32, 98, 9, 13, 10>>

\* C20: the response parse returns Ok or an Err for every input and never
\* aborts: a status line with no digit before its terminator, or with digits
\* whose value does not fit 16 bits, is Malformed.
C20_ResponseTotal ==
  op = "response" =>
    /\ res # "Panic"
    /\ pc = "done" => res \in {"Ok", "Malformed"}
    /\ (stage = "status" /\ C8_GoodVersion(given.start[1])
          /\ (given.start[2] = <<>> \/ given.start[2] = <<57, 57, 57, 57, 57>>)) =>
         (pc = "done" /\ res = "Malformed")

-----------------------------------------------------------------------------
(* The header-block scanner: src/src/lib.rs *)

\* pub const EMPTY_HEADER
EMPTY_HEADER == Header(<<>>, <<>>)

\* the capacity test, off by one
Lib_buf_full_OffByOne(n, len) == n > len

\* iteration >= headers_buf.len()
Lib_buf_full(n, len) == n >= len

\* the bytes that end the scan of a header name
Lib_name_stop == {c \in Byte : ~HEADER_NAME_SAFE(c)}

Lib_parse_header_name(b) ==
  LET i == FirstIdx(b, Lib_name_stop)
  IN IF i = 0 THEN Rslt("Panic", <<>>, b)
     ELSE IF b[i] = COLON
          THEN IF i + 1 > Len(b) THEN Rslt("Panic", <<>>, b)
               ELSE IF b[i + 1] = SPACE \/ b[i + 1] = 9
                    THEN Rslt("Ok", TakeN(b, i - 1), DropN(b, i + 1))
               ELSE Rslt("Ok", TakeN(b, i - 1), DropN(b, i))
     ELSE Rslt("Malformed", <<>>, b)

\* the value scan, refusing an empty value
Lib_parse_header_value_NonEmpty(b) ==
  LET i == FirstIdx(b, {CR})
  IN IF i = 0 THEN Rslt("Malformed", <<>>, b)
     ELSE IF i = 1 THEN Rslt("Malformed", <<>>, b)
     ELSE IF i + 1 > Len(b) THEN Rslt("Panic", <<>>, b)
     ELSE IF b[i + 1] = LF THEN Rslt("Ok", TakeN(b, i - 1), DropN(b, i + 1))
     ELSE Rslt("Malformed", <<>>, b)

Lib_parse_header_value(b) ==
  LET i == FirstIdx(b, {CR})
  IN IF i = 0 THEN Rslt("Malformed", <<>>, b)
     ELSE IF i + 1 > Len(b) THEN Rslt("Panic", <<>>, b)
     ELSE IF b[i + 1] = LF THEN Rslt("Ok", TakeN(b, i - 1), DropN(b, i + 1))
     ELSE Rslt("Malformed", <<>>, b)

\* the name and the value of one iteration of the loop of parse_headers
Lib_parse_header(b) ==
  LET n == Lib_parse_header_name(b)
  IN IF n.res # "Ok" THEN Rslt(n.res, EMPTY_HEADER, n.rest)
     ELSE LET v == Lib_parse_header_value(n.rest)
          IN IF v.res # "Ok" THEN Rslt(v.res, EMPTY_HEADER, v.rest)
             ELSE Rslt("Ok", Header(n.val, v.val), v.rest)

-----------------------------------------------------------------------------
(* The inputs of the header-block scanner *)

\* what stands where the blank line is expected: the blank line, a bare LF,
\* or the end of a slice that was cut short
HdrTerminators ==
  { <<13, 10>>,   \* '\r\n'
    <<10>>,   \* '\n'
    <<>>,   \* ''
    <<13>>,   \* '\r'
    <<65, 58>>,   \* 'A:'
    <<65, 98>>,   \* 'Ab'
    <<65, 58, 32, 98, 13>> }   \* 'A: b\r'

HdrGiven ==
  {Given(<<>>, ls, t, b) :
     ls \in LineSeqs(MaxLines), t \in HdrTerminators,
     b \in {<<>>, <<120, 121>>}}

-----------------------------------------------------------------------------
(* parse_headers, one iteration of its loop at a time *)

InitHdr ==
  /\ op = "headers"
  /\ given \in HdrGiven
  /\ input = Assemble(given)
  /\ cap \in 0..MaxCap
  /\ buf = [i \in 1..cap |-> EMPTY_HEADER]
  /\ InitCommon

\* offset = 0, iteration = 0
HdrParseStart ==
  /\ op = "headers" /\ pc = "start"
  /\ stage' = "start"
  /\ bytes' = input
  /\ iteration' = 0
  /\ pc' = "headers"
  /\ UNCHANGED <<op, input, cap, body, method, path, status, reason, headers,
                 res, round, first, given, buf, count, query_params>>

\* the loop test &slice[offset..(offset+2)] != b"\r\n" holds, or aborts on a
\* slice with fewer than two bytes left; then the body of the loop
HdrParseHeader ==
  /\ op = "headers" /\ pc = "headers"
  /\ ~BeginsWith(bytes, CRLF)
  /\ stage' = "headers"
  /\ IF Len(bytes) < 2 THEN Fail("Panic")
     ELSE IF Lib_buf_full(iteration, cap) THEN Fail("TooManyHeaders")
     ELSE LET r == Lib_parse_header(bytes)
          IN IF r.res # "Ok" THEN Fail(r.res)
             ELSE IF iteration >= Len(buf) THEN Fail("Panic")
             ELSE /\ buf' = [buf EXCEPT ![iteration + 1] = r.val]
                  /\ iteration' = iteration + 1
                  /\ bytes' = r.rest
                  /\ UNCHANGED <<op, pc, input, cap, body, method, path,
                                 status, reason, headers, res, round, first,
                                 given, count, query_params>>

\* the loop test fails: Ok(offset + 2)
HdrParseFinish ==
  /\ op = "headers" /\ pc = "headers"
  /\ BeginsWith(bytes, CRLF)
  /\ stage' = "finish"
  /\ count' = (Len(input) - Len(bytes)) + 2
  /\ pc' = "done"
  /\ res' = "Ok"
  /\ UNCHANGED <<op, input, cap, bytes, body, method, path, status, reason,
                 headers, round, first, given, buf, iteration, query_params>>

NextHdr ==
  \/ HdrParseStart
  \/ HdrParseHeader
  \/ HdrParseFinish

SpecHdr == InitHdr /\ [][NextHdr]_vars

-----------------------------------------------------------------------------
(* Claims about the header-block scanner *)

\* header lines that the header-block scanner takes
C2_GoodLines ==
  { <<65, 58, 32, 98, 13, 10>>, <<65, 58, 98, 13, 10>>,
    <<65, 58, 32, 32, 98, 13, 10>>, <<65, 58, 9, 98, 13, 10>>,
    <<66, 45, 99, 58, 32, 13, 10>>, <<65, 95, 49, 58, 32, 98, 13, 10>> }

\* C2: a header block with more header lines than the buffer has slots makes
\* parse_headers return TooManyHeaders; it does not abort, does not write
\* past the last slot and does not return Ok with the first cap headers.
\* (The lines that fit the buffer are well-formed; those after them are
\* any.)
C2_TooManyHeaders ==
  (op = "headers" /\ Len(given.lines) > cap
     /\ \A i \in 1..cap : given.lines[i] \in C2_GoodLines) =>
    /\ iteration <= cap
    /\ Len(buf) = cap
    /\ res \in {"None", "TooManyHeaders"}
    /\ pc = "done" => res = "TooManyHeaders"

\* a one-slot buffer is full and a second header line has been refused
C2_Witness ==
  /\ op = "headers" /\ pc = "done" /\ res = "TooManyHeaders"
  /\ cap = 1 /\ iteration = 1 /\ Len(given.lines) = 2
  /\ buf[1] # EMPTY_HEADER

\* C21: the header-block scanner ends on every slice and buffer with Ok or
\* an Err, its offset growing with every header it takes; it reads no byte at
\* or past the end of the slice and does not reach unreachable!(): a slice
\* that ends before the blank line, right after a colon, right after a CR or
\* inside a header name is Malformed.
C21_ScannerTotal ==
  op = "headers" =>
    /\ res # "Panic"
    /\ pc = "done" => res \in {"Ok", "Malformed", "TooManyHeaders"}
    /\ pc = "headers" => Len(input) - Len(bytes) >= iteration
    /\ (pc = "done" /\ given.body = <<>> /\ cap >= Len(given.lines) + 1
          /\ given.term \in {<<>>, <<13>>, <<65, 58>>, <<65, 98>>,
                             <<65, 58, 32, 98, 13>>}
          /\ \A i \in 1..Len(given.lines) : given.lines[i] \in C2_GoodLines) =>
         res = "Malformed"

-----------------------------------------------------------------------------
(* One header block given to the header-block scanner, to the request parser
   and to the response parser in turn *)

\* b"GET / HTTP/1.1\r\n"
ScanReqLine == <<71, 69, 84, 32, 47, 32, 72, 84, 84, 80, 47, 49, 46, 49, 13, 10>>

\* b"HTTP/1.1 200 OK\r\n"
ScanRespLine ==
  <<72, 84, 84, 80, 47, 49, 46, 49, 32, 50, 48, 48, 32, 79, 75, 13, 10>>

\* what a scan of a header block ends with: its result and its headers
Outcome(r, hs) == [res |-> r, headers |-> hs]

NoOutcome == Outcome("None", <<>>)

\* header blocks, before the blank line or what stands in its place
ScanGiven ==
  {Given(<<>>, ls, t, <<>>) : ls \in LineSeqs(MaxLines), t \in HdrTerminators}

\* the buffer has a slot for every header line of the block
InitScan ==
  /\ op = "headers"
  /\ given \in ScanGiven
  /\ input = Assemble(given)
  /\ cap = MaxLines
  /\ buf = [i \in 1..cap |-> EMPTY_HEADER]
  /\ InitCommon

\* parse_headers has returned; the same block goes to RequestParser::parse
\* after a request line
ScanToRequest ==
  /\ op = "headers" /\ pc = "done" /\ round = 1
  /\ first' = [lib |-> Outcome(res, SubSeq(buf, 1, iteration)),
               req |-> NoOutcome]
  /\ op' = "request"
  /\ input' = ScanReqLine \o Assemble(given)
  /\ round' = 2
  /\ pc' = "start"
  /\ res' = "None"
  /\ bytes' = <<>>
  /\ stage' = "none"
  /\ UNCHANGED <<cap, body, method, path, status, reason, headers, given,
                 bufvars>>

\* RequestParser::parse has returned; the same block goes to
\* ResponseParser::parse after a status line
ScanToResponse ==
  /\ op = "request" /\ pc = "done" /\ round = 2
  /\ first' = [first EXCEPT !.req = Outcome(res, headers)]
  /\ op' = "response"
  /\ input' = ScanRespLine \o Assemble(given)
  /\ round' = 3
  /\ pc' = "start"
  /\ res' = "None"
  /\ bytes' = <<>>
  /\ headers' = <<>>
  /\ stage' = "none"
  /\ UNCHANGED <<cap, body, method, path, status, reason, given, bufvars>>

NextScan ==
  \/ HdrParseStart
  \/ HdrParseHeader
  \/ HdrParseFinish
  \/ ScanToRequest
  \/ ReqParseStart
  \/ ReqParseMethod
  \/ ReqParsePath
  \/ ReqParseVersion
  \/ ReqParseHeader
  \/ ReqParseFinish
  \/ ScanToResponse
  \/ RespParseStart
  \/ RespParseVersion
  \/ RespParseStatus
  \/ RespParseHeadersBegin
  \/ RespParseHeader
  \/ RespParseFinish

SpecScan == InitScan /\ [][NextScan]_vars

\* the headers the scan that runs now has produced
Parsed == IF op = "headers" THEN SubSeq(buf, 1, iteration) ELSE headers

-----------------------------------------------------------------------------
(* Claims about the headers of a parsed message *)

\* a header line: a colon in it, CRLF at its end and no CR or LF before that
C11_Line(l) ==
  /\ Len(l) >= 3
  /\ l[Len(l) - 1] = 13 /\ l[Len(l)] = 10
  /\ \A i \in 1..(Len(l) - 2) : l[i] \notin {13, 10}
  /\ \E i \in 1..(Len(l) - 2) : l[i] = 58

\* the name and the value a header line writes: the bytes before the first
\* colon; the bytes after it, less one leading space or tab, up to the CRLF
C11_Pair(l) ==
  LET i == CHOOSE k \in 1..Len(l) : l[k] = 58 /\ \A j \in 1..(k - 1) : l[j] # 58
      after == SubSeq(l, i + 1, Len(l) - 2)
  IN [name |-> SubSeq(l, 1, i - 1),
      val |-> IF after # <<>> /\ after[1] \in {32, 9} THEN Tail(after)
              ELSE after]

\* header lines with a name of letters and '-': with and without the space
\* after the colon, with a value and without
C11_TakenLines ==
  { <<65, 58, 32, 98, 13, 10>>, <<65, 58, 98, 13, 10>>,
    <<66, 45, 99, 58, 32, 13, 10>>, <<66, 58, 13, 10>> }

\* C11: on success the headers are the header lines of the input, one entry
\* per line in the order met, nothing dropped, merged or changed in case;
\* and a block of header lines with or without a value, closed by the blank
\* line, is accepted.
C11_HeadersAsGiven ==
  /\ (pc = "done" /\ res = "Ok"
        /\ \A i \in 1..Len(given.lines) : C11_Line(given.lines[i])) =>
       Parsed = [i \in 1..Len(given.lines) |-> C11_Pair(given.lines[i])]
  /\ (pc = "done" /\ given.term = CRLF
        /\ \A i \in 1..Len(given.lines) : given.lines[i] \in C11_TakenLines) =>
       res = "Ok"

\* the request parser has returned two equal headers of the mixed-case name
\* "B-c", each with an empty value
C11_Witness ==
  /\ op = "request" /\ pc = "done" /\ res = "Ok"
  /\ given.lines = << <<66, 45, 99, 58, 32, 13, 10>>, <<66, 45, 99, 58, 32, 13, 10>> >>
  /\ headers = << Header(<<66, 45, 99>>, <<>>), Header(<<66, 45, 99>>, <<>>) >>

\* C12: the header-block scanner, the request parser and the response
\* parser accept or reject a header block alike and, where they accept it,
\* yield the same (name, value) pairs: a name of header-name-safe bytes
\* (letters, digits, '-', '_') that one of them takes, each of them takes.
C12_ScanAlike ==
  (op = "response" /\ round = 3 /\ pc = "done") =>
    /\ (first.lib.res = "Ok") <=> (first.req.res = "Ok")
    /\ (first.req.res = "Ok") <=> (res = "Ok")
    /\ res = "Ok" =>
         (first.lib.headers = first.req.headers /\ first.req.headers = headers)

\* the colon of a header line is followed by two bytes or more that are a
\* space or a tab
C19_ManyBlanks(l) ==
  LET i == FirstIdx(l, {58})
  IN /\ i # 0
     /\ i + 2 <= Len(l)
     /\ l[i + 1] \in {32, 9}
     /\ l[i + 2] \in {32, 9}

\* C19: after the colon of a header line the scan skips one byte if it is a
\* space or a tab and none otherwise, so that a line with no space after the
\* colon is accepted with its whole value; a line whose colon is followed by
\* more than one space or tab is rejected.
C19_OneBlankAfterColon ==
  (pc = "done" /\ \A i \in 1..Len(given.lines) : C11_Line(given.lines[i])) =>
    /\ (\E i \in 1..Len(given.lines) : C19_ManyBlanks(given.lines[i])) =>
         res # "Ok"
    /\ res = "Ok" =>
         \A i \in 1..Len(given.lines) :
           Parsed[i].val = C11_Pair(given.lines[i]).val
    /\ (given.term = CRLF
          /\ \A i \in 1..Len(given.lines) :
               given.lines[i] \in {<<65, 58, 98, 13, 10>>, <<65, 58, 9, 98, 13, 10>>}) =>
         res = "Ok"

\* C22: every header of a successful parse has a name that is not empty,
\* so none has the name of EMPTY_HEADER; a header block with a line that
\* begins with ':' is rejected.
C22_NamesNonEmpty ==
  /\ (pc = "done" /\ res = "Ok") =>
       \A i \in 1..Len(Parsed) : Parsed[i].name # EMPTY_HEADER.name
  /\ (pc = "done" /\ \E i \in 1..Len(given.lines) : given.lines[i][1] = 58) =>
       res # "Ok"

-----------------------------------------------------------------------------
(* The URL parser: src/src/uri.rs *)

\* pub const EMPTY_QUERY
EMPTY_QUERY == [name |-> <<>>, val |-> <<>>]

\* QueryParam::new
QueryParam(n, v) == [name |-> n, val |-> v]

\* Url::new: the parts as given, an empty path made "/"
Url_new(p, q) ==
  [path |-> IF p = <<>> THEN <<47>> ELSE p, query_params |-> q]

\* parse_path, an empty slice taken as the path "/"
Url_parse_path_Normalizing(b) ==
  LET i == FirstIdx(b, {63})
  IN IF b = <<>> THEN Rslt("Ok", <<47>>, <<>>)
     ELSE IF b[1] # 47 THEN Rslt("Path", <<>>, b)
     ELSE IF i # 0 THEN Rslt("Ok", TakeN(b, i - 1), DropN(b, i))
     ELSE Rslt("Ok", b, <<>>)

\* val is the path, rest the slice after the bytes consumed; the path is the
\* bytes of the slice as they are: from_utf8_unchecked changes and tests
\* none of them
Url_parse_path(b) ==
  LET i == FirstIdx(b, {63})
  IN IF b = <<>> \/ b[1] # 47 THEN Rslt("Path", <<>>, b)
     ELSE IF i # 0 THEN Rslt("Ok", TakeN(b, i - 1), DropN(b, i))
     ELSE Rslt("Ok", b, <<>>)

\* the test that skips the query, without the test of the buffer
Url_skip_query_NoBufTest(rest, len) == rest = <<>>

\* offset == slice.len() || queries_buf.is_empty()
Url_skip_query(rest, len) == rest = <<>> \/ len = 0

\* the capacity test, off by one
Url_buf_full_OffByOne(n, len) == n > len

\* iteration >= queries_buf.len()
Url_buf_full(n, len) == n >= len

\* a byte that is neither header-name-safe nor '=' does not end the scan
Url_parse_query_param_name(b) ==
  LET i == FirstIdx(b, {c \in {61} : ~HEADER_NAME_SAFE(c)})
  IN IF i = 0 THEN Rslt("Query", <<>>, b)
     ELSE IF i = 1 THEN Rslt("Query", <<>>, b)
     ELSE Rslt("Ok", TakeN(b, i - 1), DropN(b, i))

Url_parse_query_param_value(b) ==
  LET i == FirstIdx(b, {38})
  IN IF i = 0 THEN Rslt("Ok", b, <<>>)
     ELSE IF i = 1 THEN Rslt("Query", <<>>, b)
     ELSE Rslt("Ok", TakeN(b, i - 1), DropN(b, i))

\* the name and the value of one iteration of the loop of
\* parse_query_params
Url_parse_query_param(b) ==
  LET n == Url_parse_query_param_name(b)
  IN IF n.res # "Ok" THEN Rslt(n.res, EMPTY_QUERY, n.rest)
     ELSE LET v == Url_parse_query_param_value(n.rest)
          IN IF v.res # "Ok" THEN Rslt(v.res, EMPTY_QUERY, v.rest)
             ELSE Rslt("Ok", QueryParam(n.val, v.val), v.rest)

-----------------------------------------------------------------------------
(* The inputs of the URL parser *)

\* paths
UrlPathTokens ==
  { <<47, 112>>,   \* '/p'
    <<47>>,   \* '/'
    <<112>>,   \* 'p'
    <<>>,   \* ''
    <<47, 112, 128>> }   \* '/p\x80'

\* query parameters, well-formed and not
UrlParamTokens ==
  { <<97, 61, 98>>,   \* 'a=b'
    <<113, 49, 61, 118>>,   \* 'q1=v'
    <<97, 61>>,   \* 'a='
    <<61, 98>>,   \* '=b'
    <<97, 98>>,   \* 'ab'
    <<97, 47, 61, 99>>,   \* 'a/=c'
    <<120, 61, 128>> }   \* 'x=\x80'

\* the sequences of at most n query parameters
ParamSeqs(n) == UNION {[1..k -> UrlParamTokens] : k \in 0..n}

RECURSIVE JoinAmp(_)
JoinAmp(ps) ==
  IF ps = <<>> THEN <<>>
  ELSE IF Len(ps) = 1 THEN ps[1]
  ELSE ps[1] \o <<38>> \o JoinAmp(Tail(ps))

\* a path; or a path, '?', parameters joined by '&', and a last '&' or none
UrlGiven ==
  {[path |-> p, mark |-> <<>>, params |-> <<>>, trail |-> <<>>] :
     p \in UrlPathTokens}
  \cup
  {[path |-> p, mark |-> <<63>>, params |-> ps, trail |-> tr] :
     p \in UrlPathTokens, ps \in ParamSeqs(MaxParams), tr \in {<<>>, <<38>>}}

AssembleUrl(g) == g.path \o g.mark \o JoinAmp(g.params) \o g.trail

-----------------------------------------------------------------------------
(* Url::parse: the path, then one iteration of the loop of
   parse_query_params at a time *)

\* Url::parse on a slice of bytes, or Url::new on a &str
InitUrl ==
  /\ op \in {"url", "url_new"}
  /\ given \in UrlGiven
  /\ input = AssembleUrl(given)
  /\ op = "url_new" => \A i \in 1..Len(input) : input[i] < 128
  /\ cap \in 0..MaxCap
  /\ buf = [i \in 1..cap |-> EMPTY_QUERY]
  /\ InitCommon

\* Url::new(path, query_params)
UrlNew ==
  /\ op = "url_new" /\ pc = "start"
  /\ stage' = "new"
  /\ \E q \in {None, Some(buf)} :
       /\ path' = Url_new(input, q).path
       /\ query_params' = Url_new(input, q).query_params
  /\ pc' = "done"
  /\ res' = "Ok"
  /\ UNCHANGED <<op, input, cap, bytes, body, method, status, reason,
                 headers, round, first, given, buf, iteration, count>>

UrlParsePath ==
  /\ op = "url" /\ pc = "start"
  /\ stage' = "path"
  /\ LET r == Url_parse_path(input)
     IN IF r.res # "Ok" THEN Fail(r.res)
        ELSE IF Url_skip_query(r.rest, Len(buf))
        THEN /\ path' = r.val
             /\ query_params' = None
             /\ pc' = "done"
             /\ res' = "Ok"
             /\ UNCHANGED <<op, input, cap, bytes, body, method, status,
                            reason, headers, round, first, given, buf,
                            iteration, count>>
        ELSE /\ path' = r.val
             /\ bytes' = r.rest
             /\ iteration' = 0
             /\ pc' = "query"
             /\ UNCHANGED <<op, input, cap, body, method, status, reason,
                            headers, res, round, first, given, buf, count,
                            query_params>>

\* the loop test offset < slice.len() holds; then the body of the loop
UrlParseQueryParam ==
  /\ op = "url" /\ pc = "query"
  /\ bytes # <<>>
  /\ stage' = "query"
  /\ IF Url_buf_full(iteration, Len(buf)) THEN Fail("TooManyQueryParams")
     ELSE LET r == Url_parse_query_param(bytes)
          IN IF r.res # "Ok" THEN Fail(r.res)
             ELSE IF iteration >= Len(buf) THEN Fail("Panic")
             ELSE /\ buf' = [buf EXCEPT ![iteration + 1] = r.val]
                  /\ iteration' = iteration + 1
                  /\ bytes' = r.rest
                  /\ UNCHANGED <<op, pc, input, cap, body, method, path,
                                 status, reason, headers, res, round, first,
                                 given, count, query_params>>

\* the loop test fails: Ok(Url{path, query_params: Some(queries_buf)})
UrlParseFinish ==
  /\ op = "url" /\ pc = "query"
  /\ bytes = <<>>
  /\ stage' = "finish"
  /\ query_params' = Some(buf)
  /\ pc' = "done"
  /\ res' = "Ok"
  /\ UNCHANGED <<op, input, cap, bytes, body, method, path, status, reason,
                 headers, round, first, given, buf, iteration, count>>

NextUrl ==
  \/ UrlNew
  \/ UrlParsePath
  \/ UrlParseQueryParam
  \/ UrlParseFinish

SpecUrl == InitUrl /\ [][NextUrl]_vars

-----------------------------------------------------------------------------
(* Claims about the URL parser *)

\* C4: with a query buffer of no slot, Url::parse on an input that begins
\* with '/' returns Ok with query_params = None, with or without a '?' and
\* whatever follows it.
C4_NoBufferNoQuery ==
  (op = "url" /\ pc = "done" /\ cap = 0 /\ input # <<>> /\ input[1] = 47) =>
    (res = "Ok" /\ query_params = None)

\* a URL with a '?' and two parameters, the second without a value or a
\* name, has been parsed with a buffer of no slot
C4_Witness ==
  /\ op = "url" /\ pc = "done" /\ cap = 0 /\ res = "Ok"
  /\ given.path = <<47, 112>> /\ given.mark = <<63>>
  /\ Len(given.params) = 2 /\ given.params[2] = <<61, 98>>

\* well-formed parameters: 'a=b' and 'q1=v'
C5_GoodParams == {<<97, 61, 98>>, <<113, 49, 61, 118>>}

\* the name and the value of a well-formed parameter token
C5_Pair(p) ==
  LET i == CHOOSE k \in 1..Len(p) : p[k] = 61 /\ \A j \in 1..(k - 1) : p[j] # 61
  IN [name |-> SubSeq(p, 1, i - 1), val |-> SubSeq(p, i + 1, Len(p))]

\* C5: when Url::parse succeeds on an input with n >= 1 query parameters and
\* a buffer of c >= n slots, the returned query_params slice has length n
\* and its i-th element is the i-th name/value pair of the input.
C5_QuerySliceLength ==
  (op = "url" /\ pc = "done" /\ res = "Ok" /\ cap >= Len(given.params)
     /\ Len(given.params) >= 1
     /\ \A i \in 1..Len(given.params) : given.params[i] \in C5_GoodParams) =>
    /\ query_params.some
    /\ Len(query_params.slice) = Len(given.params)
    /\ \A i \in 1..Len(given.params) :
         query_params.slice[i] = C5_Pair(given.params[i])

\* C13: after a successful parse every byte of a text field is below 128 and
\* in the character table of its place: URL-safe in a path, a letter or a
\* space in a reason phrase, header-name-safe in a header name and in a query
\* parameter name, below 128 in a query parameter value.
C13_TextBytesValidated ==
  (op \in {"request", "response", "url"} /\ pc = "done" /\ res = "Ok") =>
    /\ \A i \in 1..Len(path) : path[i] < 128 /\ URL_SAFE(path[i])
    /\ \A i \in 1..Len(reason) : reason[i] < 128 /\ Resp_is_reason_byte(reason[i])
    /\ \A i \in 1..Len(Parsed) :
         \A j \in 1..Len(Parsed[i].name) :
           Parsed[i].name[j] < 128 /\ HEADER_NAME_SAFE(Parsed[i].name[j])
    /\ query_params.some =>
         \A i \in 1..Len(query_params.slice) :
           /\ \A j \in 1..Len(query_params.slice[i].name) :
                /\ query_params.slice[i].name[j] < 128
                /\ HEADER_NAME_SAFE(query_params.slice[i].name[j])
           /\ \A j \in 1..Len(query_params.slice[i].val) :
                query_params.slice[i].val[j] < 128

\* parameters with a name of header-name-safe bytes and any value, the empty
\* one too: 'a=b', 'q1=v', 'a=', 'x=\x80'
C14_Params ==
  {<<97, 61, 98>>, <<113, 49, 61, 118>>, <<97, 61>>, <<120, 61, 128>>}

\* C14: a query parameter value may be empty at any place, before a '&' as
\* at the end of the input: a URL of such parameters that fit the buffer is
\* accepted, each value being the bytes from the '=' to the next '&' or to
\* the end, whatever they are.
C14_EmptyValueAnywhere ==
  (op = "url" /\ pc = "done" /\ given.path \in {<<47>>, <<47, 112>>}
     /\ given.mark = <<63>> /\ given.trail = <<>>
     /\ Len(given.params) >= 1 /\ Len(given.params) <= cap
     /\ \A i \in 1..Len(given.params) : given.params[i] \in C14_Params) =>
    /\ res = "Ok"
    /\ \A i \in 1..Len(given.params) : buf[i] = C5_Pair(given.params[i])

\* the name of a parameter is empty, holds before its '=' a byte that is not
\* header-name-safe, or has no '=' after it
C15_BadName(p) ==
  LET i == FirstIdx(p, {61})
  IN \/ i = 0
     \/ i = 1
     \/ \E j \in 1..(i - 1) : ~HEADER_NAME_SAFE(p[j])

\* C15: with a query buffer that is not empty, every query parameter name
\* that is accepted is non-empty and of header-name-safe bytes only; a first
\* parameter whose name is empty, holds another byte or has no '=' makes the
\* parse fail with the Query error.
C15_NamesValidated ==
  (op = "url" /\ cap >= 1 /\ given.path \in {<<47>>, <<47, 112>>}
     /\ given.mark = <<63>>) =>
    /\ (pc = "done" /\ res = "Ok") =>
         \A i \in 1..iteration :
           /\ query_params.slice[i].name # <<>>
           /\ \A j \in 1..Len(query_params.slice[i].name) :
                HEADER_NAME_SAFE(query_params.slice[i].name[j])
    /\ (pc = "done" /\ given.params # <<>> /\ C15_BadName(given.params[1])) =>
         res = "Query"

\* C16: with a query buffer of c >= 1 slots, a URL with more than c
\* well-formed query parameters makes Url::parse return TooManyQueryParams
\* with no write past the last slot; a URL with at most c of them, a last
\* '&' after them or none, does not.
C16_TooManyQueryParams ==
  (op = "url" /\ cap >= 1 /\ given.path \in {<<47>>, <<47, 112>>}
     /\ given.mark = <<63>>
     /\ \A i \in 1..Len(given.params) : given.params[i] \in C5_GoodParams) =>
    /\ iteration <= cap
    /\ Len(buf) = cap
    /\ res # "Panic"
    /\ (pc = "done" /\ Len(given.params) > cap) => res = "TooManyQueryParams"
    /\ (pc = "done" /\ Len(given.params) <= cap) =>
         /\ res # "TooManyQueryParams"
         /\ Len(given.params) >= 1 => res = "Ok"

\* a one-slot buffer holds the first parameter and the second has been refused
C16_Witness ==
  /\ op = "url" /\ pc = "done" /\ res = "TooManyQueryParams"
  /\ cap = 1 /\ iteration = 1 /\ Len(given.params) = 2
  /\ buf[1] = C5_Pair(given.params[1])

\* a one-slot buffer has taken one parameter with a '&' after it
C16_WitnessTrailing ==
  /\ op = "url" /\ pc = "done" /\ res = "Ok"
  /\ cap = 1 /\ Len(given.params) = 1 /\ given.trail = <<38>>

\* C17: Url::new makes an empty path "/" and leaves every other path as it
\* is; Url::parse on an empty input, or on one whose first byte is not '/',
\* returns the Path error and no path; on an input that begins with '/' the
\* path it parses is the bytes before the first '?', the whole input if
\* there is none.
C17_BuildParseAsymmetry ==
  /\ (op = "url_new" /\ pc = "done") =>
       /\ res = "Ok"
       /\ path = (IF input = <<>> THEN <<47>> ELSE input)
  /\ (op = "url" /\ pc = "done" /\ (input = <<>> \/ input[1] # 47)) =>
       (res = "Path" /\ path = <<>>)
  /\ (op = "url" /\ stage # "none" /\ input # <<>> /\ input[1] = 47) =>
       /\ res # "Path"
       /\ path = given.path
       /\ \A i \in 1..Len(path) : path[i] # 63
       /\ \/ input = path
          \/ BeginsWith(input, path \o <<63>>)

\* Url::new has been given the empty path
C17_Witness ==
  /\ op = "url_new" /\ pc = "done" /\ input = <<>> /\ path = <<47>>

\* Url::parse has been given the empty slice
C17_WitnessParse ==
  /\ op = "url" /\ pc = "done" /\ input = <<>> /\ res = "Path"

====
